---- MODULE Spec2Model ----
(***************************************************************************)
(* Model of pseudographics.py: conversion of a black-and-white bitmap      *)
(* (a 2D numpy array) into lines of Unicode block characters.              *)
(*                                                                         *)
(* A numpy array is a record [kind, dtype, shape, data, mem]: `data` is    *)
(* the flat C-order buffer, `shape` the tuple of dimensions and `mem` the  *)
(* buffer the array's elements live in (a view keeps the `mem` of its      *)
(* base, an allocating operation names a new one).  A Python str is the    *)
(* sequence of its code points.  A raised exception is a record            *)
(* [kind |-> "raise", exc |-> <type>].  Every function returns, next to    *)
(* its result, the state of each object it was handed as the call leaves   *)
(* it, and the actions store those back.                                   *)
(*                                                                         *)
(* The file stores its non-ASCII text double-encoded: each byte of the     *)
(* UTF-8 original appears as the character PTCP154 gives that byte.  The   *)
(* glyph tables below are the original code points (the text encoded as    *)
(* PTCP154 and decoded as UTF-8); with them every constructor assertion    *)
(* of the dict literal holds, as it must for the module to import.         *)
(***************************************************************************)
EXTENDS Integers, Sequences, FiniteSets, TLC

VARIABLES
  bitmap,    \* the array the caller holds and passes as `bitmap`
  registry,  \* the dict _pseudographics_by_block_set
  self,      \* a _Pseudographics object of the caller's own, or None
  call,      \* the latest call: its function and arguments
  grid,      \* what the latest bitmap_to_blocks call returned or raised
  ret        \* what the latest call returned or raised to the caller

vars == <<bitmap, registry, self, call, grid, ret>>

(***************************************************************************)
(* Bounds of the explored inputs.                                          *)
(***************************************************************************)
\* largest bitmap height
MaxH == 4
\* largest bitmap width
MaxW == 3
\* largest number of pixels of a bitmap
MaxCells == 8
\* largest number of pixels of a bitmap whose pixels take every value
MaxMixedCells == 4
\* largest pixel value; pixels are 0, 1 or MaxVal
MaxVal == 255

PixelValues == {0, 1, MaxVal}

\* largest bit position of a pixel order handed to the constructor
MaxBit == 2
\* longest list of blocks handed to the constructor
MaxBlocks == 4

(***************************************************************************)
(* Values                                                                  *)
(***************************************************************************)
None == [kind |-> "None"]

Raise(e) == [kind |-> "raise", exc |-> e]

ndarray(dtype, shape, data, mem) ==
  [kind |-> "ndarray", dtype |-> dtype, shape |-> shape, data |-> data, mem |-> mem]

RECURSIVE prod(_)
prod(shape) == IF shape = <<>> THEN 1 ELSE Head(shape) * prod(Tail(shape))

ndim(a) == Len(a.shape)

RECURSIVE concat(_)
concat(ss) == IF ss = <<>> THEN <<>> ELSE Head(ss) \o concat(Tail(ss))

\* list(s) for a str s: the list of its one-character strings
list(s) == [i \in 1..Len(s) |-> <<s[i]>>]

\* faulty variant of join: the separator is a space
join_space(items) ==
  concat([n \in 1..(2 * Len(items) - 1) |-> IF n % 2 = 1 THEN items[(n + 1) \div 2] ELSE <<32>>])

\* sep.join(items) with sep = ''
join(items) == concat(items)

(***************************************************************************)
(* numpy operations used by the program                                    *)
(***************************************************************************)
\* np.array(l) for a list of str
np_array(l, mem) == ndarray("str", <<Len(l)>>, l, mem)

\* np.array(ll) for a rectangular list of lists of int
np_array2(ll, mem) ==
  LET h == Len(ll)
      w == IF h = 0 THEN 0 ELSE Len(ll[1])
  IN ndarray("int", IF h = 0 THEN <<0>> ELSE <<h, w>>,
             [k \in 1..(h * w) |-> ll[((k - 1) \div w) + 1][((k - 1) % w) + 1]], mem)

\* base ** a for an integer array a
rpow(base, a, mem) ==
  IF \E k \in 1..Len(a.data) : a.data[k] < 0
  THEN Raise("ValueError")
  ELSE ndarray("int", a.shape, [k \in 1..Len(a.data) |-> base ^ a.data[k]], mem)

\* a != v
not_equal(a, v, mem) ==
  ndarray("bool", a.shape, [k \in 1..Len(a.data) |-> a.data[k] # v], mem)

\* np.pad(a, ((b0, a0), (b1, a1))) of a 2D array, mode 'constant', value 0
np_pad(a, pad_width, mem) ==
  LET h == a.shape[1]
      w == a.shape[2]
      H == pad_width[1][1] + h + pad_width[1][2]
      W == pad_width[2][1] + w + pad_width[2][2]
      zero == IF a.dtype = "bool" THEN FALSE ELSE 0
      at(k) == LET i == ((k - 1) \div W) - pad_width[1][1]
                   j == ((k - 1) % W) - pad_width[2][1]
               IN IF i \in 0..(h - 1) /\ j \in 0..(w - 1)
                  THEN a.data[i * w + j + 1]
                  ELSE zero
  IN ndarray(a.dtype, <<H, W>>, [k \in 1..(H * W) |-> at(k)], mem)

\* a.reshape(shape): a view of the same buffer
reshape(a, shape) ==
  IF prod(shape) # Len(a.data)
  THEN Raise("ValueError")
  ELSE ndarray(a.dtype, shape, a.data, a.mem)

asint(dtype, x) == IF dtype = "bool" THEN (IF x THEN 1 ELSE 0) ELSE x

RECURSIVE dotsum(_, _, _, _, _)
\* sum over the n1 * n3 contracted positions k of a[R, r, C, c] * b[r, c]
dotsum(a, b, R, C, k) ==
  IF k = 0 THEN 0
  ELSE LET n1 == a.shape[2]
           n2 == a.shape[3]
           n3 == a.shape[4]
           r == (k - 1) \div n3
           c == (k - 1) % n3
       IN asint(a.dtype, a.data[((R * n1 + r) * n2 + C) * n3 + c + 1])
            * asint(b.dtype, b.data[r * n3 + c + 1])
          + dotsum(a, b, R, C, k - 1)

\* np.tensordot(a, b, axes=((1, 3), (0, 1))) of a 4D array a and a 2D array b
tensordot(a, b, mem) ==
  IF a.shape[2] # b.shape[1] \/ a.shape[4] # b.shape[2]
  THEN Raise("ValueError")
  ELSE LET n0 == a.shape[1]
           n2 == a.shape[3]
       IN ndarray("int", <<n0, n2>>,
                  [k \in 1..(n0 * n2) |->
                     dotsum(a, b, (k - 1) \div n2, (k - 1) % n2, a.shape[2] * a.shape[4])],
                  mem)

\* faulty variant of getitem: an index past the end wraps around
getitem_wrap(a, idx, mem) ==
  ndarray(a.dtype, idx.shape,
          [k \in 1..Len(idx.data) |-> a.data[(idx.data[k] % a.shape[1]) + 1]], mem)

\* a[idx] for a 1D array a and an integer array idx (advanced indexing: a copy)
getitem(a, idx, mem) ==
  LET n == a.shape[1]
  IN IF \E k \in 1..Len(idx.data) : idx.data[k] >= n \/ idx.data[k] < -n
     THEN Raise("IndexError")
     ELSE ndarray(a.dtype, idx.shape,
                  [k \in 1..Len(idx.data) |->
                     a.data[(IF idx.data[k] < 0 THEN idx.data[k] + n ELSE idx.data[k]) + 1]],
                  mem)

(***************************************************************************)
(* class _Pseudographics                                                   *)
(***************************************************************************)
\* _Pseudographics(blocks, pixel_order)
Pseudographics(blocks, pixel_order) ==
  LET b == np_array(blocks, "self.blocks")
      m == rpow(2, np_array2(pixel_order, "pixel_order"), "self.matrix")
  IN IF m.kind = "raise" THEN m
     ELSE IF ndim(m) # 2 THEN Raise("ValueError")
     ELSE IF b.shape[1] # 2 ^ (m.shape[1] * m.shape[2]) THEN Raise("AssertionError")
     ELSE [kind |-> "object", blocks |-> b, matrix |-> m]

\* faulty variant of Outcome: line 80 binarizes the caller's array in place
Outcome_inplace(r, slf, bmp) ==
  [ret |-> r, self |-> slf,
   bitmap |-> [bmp EXCEPT !.data = [k \in 1..Len(bmp.data) |-> IF bmp.data[k] # 0 THEN 1 ELSE 0]]]

\* what a call leaves behind: its result or exception, and its two arguments
Outcome(r, slf, bmp) == [ret |-> r, self |-> slf, bitmap |-> bmp]

\* faulty variant of pad_width: the remainder in place of its complement
pad_width_remainder(bh, bw, ch, cw) == << <<0, bh % ch>>, <<0, bw % cw>> >>

\* faulty variant of pad_width: the padding goes before the bitmap
pad_width_before(bh, bw, ch, cw) == << <<(-bh) % ch, 0>>, <<(-bw) % cw, 0>> >>

\* the padding of line 82
pad_width(bh, bw, ch, cw) == << <<0, (-bh) % ch>>, <<0, (-bw) % cw>> >>

\* faulty variant of binarize: only the pixels equal to 1 are foreground
binarize_eq1(bmp) ==
  ndarray("bool", bmp.shape, [k \in 1..Len(bmp.data) |-> bmp.data[k] = 1], "line80")

\* the binarized bitmap of line 80
binarize(bmp) == not_equal(bmp, 0, "line80")

\* faulty variant of binarize_and_pad: pads only when both dimensions need it
binarize_and_pad_both(slf, bmp) ==
  LET bh == bmp.shape[1]
      bw == bmp.shape[2]
      ch == slf.matrix.shape[1]
      cw == slf.matrix.shape[2]
      b == not_equal(bmp, 0, "line80")
  IN IF bh % ch # 0 /\ bw % cw # 0
     THEN np_pad(b, << <<0, (-bh) % ch>>, <<0, (-bw) % cw>> >>, "line82")
     ELSE b

\* the binarized and padded bitmap of lines 80-83
binarize_and_pad(slf, bmp) ==
  LET bh == bmp.shape[1]
      bw == bmp.shape[2]
      ch == slf.matrix.shape[1]
      cw == slf.matrix.shape[2]
      b == binarize(bmp)
  IN IF bh % ch # 0 \/ bw % cw # 0
     THEN np_pad(b, pad_width(bh, bw, ch, cw), "line82")
     ELSE b

\* faulty variant of split: the two chunk-grid axes first, the two in-chunk axes last
split_grid_first(slf, padded) ==
  LET bh == padded.shape[1]
      bw == padded.shape[2]
      ch == slf.matrix.shape[1]
      cw == slf.matrix.shape[2]
  IN reshape(padded, <<bh \div ch, bw \div cw, ch, cw>>)

\* faulty variant of split: the number of chunk rows is left to reshape (-1), which
\* cannot infer it for an array without elements
split_infer(slf, padded) ==
  LET bh == padded.shape[1]
      bw == padded.shape[2]
      ch == slf.matrix.shape[1]
      cw == slf.matrix.shape[2]
  IN IF ch * (bw \div cw) * cw = 0 \/ Len(padded.data) % (ch * (bw \div cw) * cw) # 0
     THEN Raise("ValueError")
     ELSE reshape(padded, <<Len(padded.data) \div (ch * (bw \div cw) * cw), ch, bw \div cw, cw>>)

\* the chunks of line 86
split(slf, padded) ==
  LET bh == padded.shape[1]
      bw == padded.shape[2]
      ch == slf.matrix.shape[1]
      cw == slf.matrix.shape[2]
  IN reshape(padded, <<bh \div ch, ch, bw \div cw, cw>>)

\* self.blocks[block_indices] of line 90
lookup(slf, block_indices) == getitem(slf.blocks, block_indices, "line90")

\* self.bitmap_to_blocks(bitmap)
bitmap_to_blocks(slf, bmp) ==
  IF ndim(bmp) # 2
  THEN Outcome(Raise("AssertionError"), slf, bmp)
  ELSE LET chunks == split(slf, binarize_and_pad(slf, bmp))
       IN IF chunks.kind = "raise" THEN Outcome(chunks, slf, bmp)
          ELSE LET block_indices == tensordot(chunks, slf.matrix, "line88")
               IN IF block_indices.kind = "raise" THEN Outcome(block_indices, slf, bmp)
                  ELSE Outcome(lookup(slf, block_indices), slf, bmp)

(***************************************************************************)
(* The registry and to_pseudographics                                      *)
(***************************************************************************)
\* the members of enum BlockSet
BlockSet == {"DOUBLE_BLOCKS", "FULL_BLOCKS", "BLOCKS_1X2", "BLOCKS_2X2",
             "BLOCKS_2X3", "BLOCKS_2X4", "BRAILLE_2X4"}

\* values a caller can pass that are no member of BlockSet
NonMembers == {"None", "str"}

DOUBLE_BLOCKS_blocks == << <<32, 32>>, <<9608, 9608>> >>

FULL_BLOCKS_blocks == << <<32>>, <<9608>> >>

BLOCKS_1X2_blocks == << <<32>>, <<9600>>, <<9604>>, <<9608>> >>

BLOCKS_2X2_str == <<
     32, 9624, 9629, 9600, 9622, 9612, 9630, 9627, 9623, 9626, 9616, 9628, 9604, 9625, 9631, 9608 >>

BLOCKS_2X3_str == <<
     32, 129792, 129793, 129794, 129795, 129796, 129797, 129798, 129799, 129800, 129801, 129802, 129803, 129804, 129805, 129806,
     129807, 129808, 129809, 129810, 129811, 9612, 129812, 129813, 129814, 129815, 129816, 129817, 129818, 129819, 129820, 129821,
     129822, 129823, 129824, 129825, 129826, 129827, 129828, 129829, 129830, 129831, 9616, 129832, 129833, 129834, 129835, 129836,
     129837, 129838, 129839, 129840, 129841, 129842, 129843, 129844, 129845, 129846, 129847, 129848, 129849, 129850, 129851, 9608 >>

BLOCKS_2X4_str == <<
     32, 118440, 118443, 129922, 118016, 9624, 118017, 118018, 118019, 118020, 9629, 118021, 118022, 118023, 118024, 9600,
     118025, 118026, 118027, 118028, 130022, 118029, 118030, 118031, 118032, 118033, 118034, 118035, 118036, 118037, 118038, 118039,
     118040, 118041, 118042, 118043, 118044, 118045, 118046, 118047, 130023, 118048, 118049, 118050, 118051, 118052, 118053, 118054,
     118055, 118056, 118057, 118058, 118059, 118060, 118061, 118062, 118063, 118064, 118065, 118066, 118067, 118068, 118069, 129925,
     118435, 118070, 118071, 118072, 118073, 118074, 118075, 118076, 118077, 118078, 118079, 118080, 118081, 118082, 118083, 118084,
     9622, 118085, 118086, 118087, 118088, 9612, 118089, 118090, 118091, 118092, 9630, 118093, 118094, 118095, 118096, 9627,
     118097, 118098, 118099, 118100, 118101, 118102, 118103, 118104, 118105, 118106, 118107, 118108, 118109, 118110, 118111, 118112,
     118113, 118114, 118115, 118116, 118117, 118118, 118119, 118120, 118121, 118122, 118123, 118124, 118125, 118126, 118127, 118128,
     118432, 118129, 118130, 118131, 118132, 118133, 118134, 118135, 118136, 118137, 118138, 118139, 118140, 118141, 118142, 118143,
     118144, 118145, 118146, 118147, 118148, 118149, 118150, 118151, 118152, 118153, 118154, 118155, 118156, 118157, 118158, 118159,
     9623, 118160, 118161, 118162, 118163, 9626, 118164, 118165, 118166, 118167, 9616, 118168, 118169, 118170, 118171, 9628,
     118172, 118173, 118174, 118175, 118176, 118177, 118178, 118179, 118180, 118181, 118182, 118183, 118184, 118185, 118186, 118187,
     9602, 118188, 118189, 118190, 118191, 118192, 118193, 118194, 118195, 118196, 118197, 118198, 118199, 118200, 118201, 118202,
     118203, 118204, 118205, 118206, 118207, 118208, 118209, 118210, 118211, 118212, 118213, 118214, 118215, 118216, 118217, 118218,
     118219, 118220, 118221, 118222, 118223, 118224, 118225, 118226, 118227, 118228, 118229, 118230, 118231, 118232, 118233, 118234,
     9604, 118235, 118236, 118237, 118238, 9625, 118239, 118240, 118241, 118242, 9631, 118243, 9606, 118244, 118245, 9608 >>

\* [chr(i) for i in range(0x2800, 0x2900)]
BRAILLE_2X4_blocks == [k \in 1..256 |-> <<10240 + (k - 1)>>]

\* the first constructor argument of each entry of the dict literal
blocks_table ==
  [DOUBLE_BLOCKS |-> DOUBLE_BLOCKS_blocks,
   FULL_BLOCKS |-> FULL_BLOCKS_blocks,
   BLOCKS_1X2 |-> BLOCKS_1X2_blocks,
   BLOCKS_2X2 |-> list(BLOCKS_2X2_str),
   BLOCKS_2X3 |-> list(BLOCKS_2X3_str),
   BLOCKS_2X4 |-> list(BLOCKS_2X4_str),
   BRAILLE_2X4 |-> BRAILLE_2X4_blocks]

\* the second constructor argument of each entry of the dict literal
pixel_order_table ==
  [DOUBLE_BLOCKS |-> << <<0>> >>,
   FULL_BLOCKS |-> << <<0>> >>,
   BLOCKS_1X2 |-> << <<0>>, <<1>> >>,
   BLOCKS_2X2 |-> << <<0, 1>>, <<2, 3>> >>,
   BLOCKS_2X3 |-> << <<0, 1>>, <<2, 3>>, <<4, 5>> >>,
   BLOCKS_2X4 |-> << <<0, 1>>, <<2, 3>>, <<4, 5>>, <<6, 7>> >>,
   BRAILLE_2X4 |-> << <<0, 3>>, <<1, 4>>, <<2, 5>>, <<6, 7>> >>]

\* faulty variant of registry_keys: the last entry of the dict literal is missing
registry_keys_short == {"DOUBLE_BLOCKS", "FULL_BLOCKS", "BLOCKS_1X2", "BLOCKS_2X2",
                        "BLOCKS_2X3", "BLOCKS_2X4"}

\* the keys of the dict literal
registry_keys == {"DOUBLE_BLOCKS", "FULL_BLOCKS", "BLOCKS_1X2", "BLOCKS_2X2",
                  "BLOCKS_2X3", "BLOCKS_2X4", "BRAILLE_2X4"}

\* the dict _pseudographics_by_block_set as the module's import builds it
pseudographics_by_block_set ==
  [k \in registry_keys |-> Pseudographics(blocks_table[k], pixel_order_table[k])]

\* to_pseudographics(bitmap, block_set), run against the registry reg;
\* `blocks` is its local of line 63, None when the lookup of line 62 failed
to_pseudographics(reg, bmp, block_set) ==
  IF block_set \notin DOMAIN reg
  THEN [ret |-> Raise("KeyError"), blocks |-> None, registry |-> reg, bitmap |-> bmp]
  ELSE LET o == bitmap_to_blocks(reg[block_set], bmp)
           reg2 == [reg EXCEPT ![block_set] = o.self]
       IN IF o.ret.kind = "raise"
          THEN [ret |-> o.ret, blocks |-> o.ret, registry |-> reg2, bitmap |-> o.bitmap]
          ELSE LET rows == o.ret.shape[1]
                   cols == o.ret.shape[2]
                   row(R) == [C \in 1..cols |-> o.ret.data[(R - 1) * cols + C]]
               IN [ret |-> [kind |-> "list", items |-> [R \in 1..rows |-> join(row(R))]],
                   blocks |-> o.ret, registry |-> reg2, bitmap |-> o.bitmap]

(***************************************************************************)
(* The callers' arrays                                                     *)
(***************************************************************************)
Arrays(shape, values) ==
  {ndarray("int", shape, d, "bitmap") : d \in [1..prod(shape) -> values]}

Shapes2D(cells) ==
  {s \in {<<h, w>> : h \in 0..MaxH, w \in 0..MaxW} : s[1] * s[2] <= cells}

\* every array over PixelValues of at most MaxMixedCells pixels
SmallBitmaps2D == UNION {Arrays(s, PixelValues) : s \in Shapes2D(MaxMixedCells)}

\* the 2D bitmaps: the small ones, and the black-and-white arrays over
\* {0, MaxVal} of at most MaxCells pixels
Bitmaps2D == SmallBitmaps2D \cup UNION {Arrays(s, {0, MaxVal}) : s \in Shapes2D(MaxCells)}

\* arrays that are not 2-dimensional
BitmapsND ==
  UNION {Arrays(s, PixelValues) : s \in {<<>>, <<0>>, <<2>>, <<1, 1, 1>>, <<2, 1, 2>>}}

(***************************************************************************)
(* Calls of to_pseudographics, the module's public function                *)
(***************************************************************************)
Init ==
  /\ bitmap \in Bitmaps2D \cup BitmapsND
  /\ registry = pseudographics_by_block_set
  /\ self = None
  /\ call = [fn |-> "none", block_set |-> "none", args |-> <<>>]
  /\ grid = None
  /\ ret = None

\* a caller runs to_pseudographics(bitmap, block_set)
call_to_pseudographics(block_set) ==
  LET o == to_pseudographics(registry, bitmap, block_set)
  IN /\ ret' = o.ret
     /\ grid' = o.blocks
     /\ registry' = o.registry
     /\ bitmap' = o.bitmap
     /\ call' = [fn |-> "to_pseudographics", block_set |-> block_set, args |-> <<>>]
     /\ UNCHANGED self

Next == \E block_set \in BlockSet \cup NonMembers : call_to_pseudographics(block_set)

Spec == Init /\ [][Next]_vars

(***************************************************************************)
(* A client's own configuration: _Pseudographics(blocks, pixel_order),     *)
(* then bitmap_to_blocks on the object.                                    *)
(***************************************************************************)
\* pixel orders of the chunk shapes 1x1, 1x2 and 2x1, well-formed or not
PixelOrders ==
  {<< <<a>> >> : a \in 0..MaxBit}
    \cup {<< <<a, b>> >> : a \in 0..MaxBit, b \in 0..MaxBit}
    \cup {<< <<a>>, <<b>> >> : a \in 0..MaxBit, b \in 0..MaxBit}

\* lists of n distinct one-character blocks 'A', 'B', ...
BlockLists == {[n \in 1..L |-> <<64 + n>>] : L \in 1..MaxBlocks}

InitCustom ==
  /\ bitmap \in SmallBitmaps2D
  /\ registry = pseudographics_by_block_set
  /\ self = None
  /\ call = [fn |-> "none", block_set |-> "none", args |-> <<>>]
  /\ grid = None
  /\ ret = None

\* the client runs self = _Pseudographics(blocks, pixel_order)
construct(blocks, pixel_order) ==
  /\ call.fn = "none"
  /\ LET o == Pseudographics(blocks, pixel_order)
     IN /\ self' = IF o.kind = "raise" THEN None ELSE o
        /\ ret' = IF o.kind = "raise" THEN o ELSE None
  /\ call' = [fn |-> "Pseudographics", block_set |-> "custom", args |-> <<blocks, pixel_order>>]
  /\ UNCHANGED <<bitmap, registry, grid>>

\* the client runs self.bitmap_to_blocks(bitmap)
call_self_bitmap_to_blocks ==
  /\ self.kind = "object"
  /\ LET o == bitmap_to_blocks(self, bitmap)
     IN /\ ret' = o.ret
        /\ grid' = o.ret
        /\ self' = o.self
        /\ bitmap' = o.bitmap
  /\ call' = [fn |-> "bitmap_to_blocks", block_set |-> "custom", args |-> <<>>]
  /\ UNCHANGED registry

NextCustom ==
  \/ \E blocks \in BlockLists, pixel_order \in PixelOrders : construct(blocks, pixel_order)
  \/ call_self_bitmap_to_blocks

SpecCustom == InitCustom /\ [][NextCustom]_vars

(***************************************************************************)
(* Vocabulary of the properties                                            *)
(***************************************************************************)
ceil_div(a, b) == (a + b - 1) \div b

\* the chunk shape of a named configuration
chunk_h(k) == Len(pixel_order_table[k])

chunk_w(k) == Len(pixel_order_table[k][1])

\* element (i, j), counted from 0, of a 2D array
at2(a, i, j) == a.data[i * a.shape[2] + j + 1]

\* whether element (i, j) of a 2D array is non-zero
nonzero(a, i, j) == asint(a.dtype, at2(a, i, j)) # 0

RECURSIVE seq_sum(_)
seq_sum(q) == IF q = <<>> THEN 0 ELSE Head(q) + seq_sum(Tail(q))

\* whether bit b of the natural number n is set
bit_set(n, b) == (n \div (2 ^ b)) % 2 = 1

\* the index (from 0) of glyph g in the list l
index_of(l, g) == (CHOOSE n \in 1..Len(l) : l[n] = g) - 1

\* to_pseudographics has run bitmap_to_blocks of a named configuration
Encoded == call.fn = "to_pseudographics" /\ call.block_set \in BlockSet

\* ... on a 2D bitmap
EncodeDone == Encoded /\ ndim(bitmap) = 2

\* to_pseudographics has been called on a 2D bitmap with a member of BlockSet
RenderDone ==
  call.fn = "to_pseudographics" /\ ndim(bitmap) = 2 /\ call.block_set \in BlockSet

\* the sum of 2^order[r][c] over the non-zero positions of chunk (R, C) of a
packed_index(order, a, R, C) ==
  LET ch == Len(order)
      cw == Len(order[1])
      term(n) == LET r == (n - 1) \div cw
                     c == (n - 1) % cw
                 IN IF nonzero(a, R * ch + r, C * cw + c) THEN 2 ^ order[r + 1][c + 1] ELSE 0
  IN seq_sum([n \in 1..(ch * cw) |-> term(n)])

(***************************************************************************)
(* C1: every output cell (R, C) of bitmap_to_blocks is the palette entry   *)
(* whose index is the sum of 2^BitOrder[r][c] over the positions (r, c)    *)
(* of chunk (R, C) that are non-zero in the padded bitmap, and that index  *)
(* lies in [0, 2^(ch*cw)).                                                 *)
(***************************************************************************)
C1_PackAndLookup ==
  EncodeDone =>
    /\ grid.kind = "ndarray"
    /\ LET k == call.block_set
           padded == binarize_and_pad(registry[k], bitmap)
       IN /\ grid.shape = <<padded.shape[1] \div chunk_h(k), padded.shape[2] \div chunk_w(k)>>
          /\ \A R \in 0..(grid.shape[1] - 1), C \in 0..(grid.shape[2] - 1) :
               LET idx == packed_index(pixel_order_table[k], padded, R, C)
               IN /\ idx \in 0..(2 ^ (chunk_h(k) * chunk_w(k)) - 1)
                  /\ at2(grid, R, C) = blocks_table[k][idx + 1]

\* a 3x2 bitmap under BRAILLE_2X4: dots 4, 2 and 6 give index 8 + 2 + 32
C1_Witness ==
  /\ EncodeDone
  /\ call.block_set = "BRAILLE_2X4"
  /\ bitmap.shape = <<3, 2>>
  /\ bitmap.data = <<0, MaxVal, MaxVal, 0, 0, MaxVal>>
  /\ grid.kind = "ndarray"
  /\ grid.data = << <<10240 + 42>> >>

(***************************************************************************)
(* C2 as stated: the output of bitmap_to_blocks has ceil(H/ch) rows and    *)
(* ceil(W/cw) columns, each cell a single character.                       *)
(***************************************************************************)
C2_SingleCharacters ==
  EncodeDone =>
    /\ grid.kind = "ndarray"
    /\ grid.shape = <<ceil_div(bitmap.shape[1], chunk_h(call.block_set)),
                     ceil_div(bitmap.shape[2], chunk_w(call.block_set))>>
    /\ Len(grid.data) = grid.shape[1] * grid.shape[2]
    /\ \A n \in 1..Len(grid.data) : Len(grid.data[n]) = 1

(***************************************************************************)
(* C2 amended: the output of bitmap_to_blocks has ceil(H/ch) rows and      *)
(* ceil(W/cw) columns, each cell one palette entry: a single character     *)
(* under every configuration but DOUBLE_BLOCKS, two characters there.      *)
(***************************************************************************)
C2_Shape ==
  EncodeDone =>
    /\ grid.kind = "ndarray"
    /\ grid.shape = <<ceil_div(bitmap.shape[1], chunk_h(call.block_set)),
                     ceil_div(bitmap.shape[2], chunk_w(call.block_set))>>
    /\ Len(grid.data) = grid.shape[1] * grid.shape[2]
    /\ \A n \in 1..Len(grid.data) :
         /\ \E m \in 1..Len(blocks_table[call.block_set]) :
              grid.data[n] = blocks_table[call.block_set][m]
         /\ Len(grid.data[n]) = IF call.block_set = "DOUBLE_BLOCKS" THEN 2 ELSE 1

\* a 1x3 bitmap under DOUBLE_BLOCKS gives 1x3 cells of two characters each
C2_Witness ==
  /\ EncodeDone
  /\ call.block_set = "DOUBLE_BLOCKS"
  /\ bitmap.shape = <<1, 3>>
  /\ bitmap.data = <<1, 0, 1>>
  /\ grid.kind = "ndarray"
  /\ grid.shape = <<1, 3>>
  /\ grid.data = << <<9608, 9608>>, <<32, 32>>, <<9608, 9608>> >>

(***************************************************************************)
(* C3: padding is background appended at the bottom and the right only:    *)
(* bit BitOrder[i mod ch][j mod cw] of the index of output cell            *)
(* (i div ch, j div cw) is set exactly when pixel (i, j) of the bitmap is  *)
(* non-zero, and the bit of every chunk position outside the bitmap is     *)
(* clear; a 1x1 bitmap of value 1 under BLOCKS_2X4 gives one character,    *)
(* the palette entry at index 2^BitOrder[0][0].                            *)
(***************************************************************************)
C3_PaddingAtEnd ==
  EncodeDone =>
    /\ grid.kind = "ndarray"
    /\ LET k == call.block_set
           order == pixel_order_table[k]
           ch == chunk_h(k)
           cw == chunk_w(k)
           H == bitmap.shape[1]
           W == bitmap.shape[2]
           idx(R, C) == index_of(blocks_table[k], at2(grid, R, C))
       IN /\ \A i \in 0..(H - 1), j \in 0..(W - 1) :
               /\ i \div ch < grid.shape[1]
               /\ j \div cw < grid.shape[2]
               /\ bit_set(idx(i \div ch, j \div cw), order[(i % ch) + 1][(j % cw) + 1])
                    <=> (at2(bitmap, i, j) # 0)
          /\ \A R \in 0..(grid.shape[1] - 1), C \in 0..(grid.shape[2] - 1) :
               \A r \in 0..(ch - 1), c \in 0..(cw - 1) :
                 (R * ch + r >= H \/ C * cw + c >= W)
                   => ~bit_set(idx(R, C), order[r + 1][c + 1])
          /\ (k = "BLOCKS_2X4" /\ bitmap.shape = <<1, 1>> /\ bitmap.data = <<1>>)
               => /\ grid.shape = <<1, 1>>
                  /\ grid.data = <<blocks_table[k][2 ^ order[1][1] + 1]>>

\* the 1x1 bitmap of value 1 under BLOCKS_2X4
C3_Witness ==
  /\ EncodeDone
  /\ call.block_set = "BLOCKS_2X4"
  /\ bitmap.shape = <<1, 1>>
  /\ bitmap.data = <<1>>
  /\ grid.kind = "ndarray"
  /\ grid.data = << <<118440>> >>

(***************************************************************************)
(* C4 as stated: to_pseudographics returns ceil(H/ch) lines, each of       *)
(* ceil(W/cw) characters.                                                  *)
(***************************************************************************)
C4_LineLength ==
  RenderDone =>
    /\ ret.kind = "list"
    /\ Len(ret.items) = ceil_div(bitmap.shape[1], chunk_h(call.block_set))
    /\ \A n \in 1..Len(ret.items) :
         Len(ret.items[n]) = ceil_div(bitmap.shape[2], chunk_w(call.block_set))

(***************************************************************************)
(* C4 amended: to_pseudographics returns ceil(H/ch) lines, all of the      *)
(* same length: ceil(W/cw) characters under every configuration but        *)
(* DOUBLE_BLOCKS, and 2 * ceil(W/cw) characters under DOUBLE_BLOCKS.       *)
(***************************************************************************)
C4_Lines ==
  RenderDone =>
    /\ ret.kind = "list"
    /\ Len(ret.items) = ceil_div(bitmap.shape[1], chunk_h(call.block_set))
    /\ \A n \in 1..Len(ret.items) :
         Len(ret.items[n]) =
           (IF call.block_set = "DOUBLE_BLOCKS" THEN 2 ELSE 1)
             * ceil_div(bitmap.shape[2], chunk_w(call.block_set))

\* the bitmap [1, 0, 1] under DOUBLE_BLOCKS gives the one line of 6 characters
C4_Witness ==
  /\ RenderDone
  /\ call.block_set = "DOUBLE_BLOCKS"
  /\ bitmap.shape = <<1, 3>>
  /\ bitmap.data = <<1, 0, 1>>
  /\ ret.kind = "list"
  /\ ret.items = << <<9608, 9608, 32, 32, 9608, 9608>> >>

(***************************************************************************)
(* C5: to_pseudographics with a name that is no supported configuration    *)
(* fails with the lookup error and returns no lines, and each of the seven *)
(* names is a key of the registry, so that a call with it does not fail    *)
(* with that error.                                                        *)
(***************************************************************************)
C5_UnknownConfiguration ==
  /\ \A k \in {"DOUBLE_BLOCKS", "FULL_BLOCKS", "BLOCKS_1X2", "BLOCKS_2X2",
               "BLOCKS_2X3", "BLOCKS_2X4", "BRAILLE_2X4"} :
       /\ k \in BlockSet
       /\ k \in DOMAIN registry
       /\ (call.fn = "to_pseudographics" /\ call.block_set = k) => ret # Raise("KeyError")
  /\ (call.fn = "to_pseudographics" /\ call.block_set \in NonMembers)
       => ret = Raise("KeyError")

\* a call with None for the block set, on a 2D bitmap
C5_Witness ==
  /\ call.fn = "to_pseudographics"
  /\ call.block_set = "None"
  /\ bitmap.shape = <<2, 2>>
  /\ ret = Raise("KeyError")

(***************************************************************************)
(* C6: bitmap_to_blocks on a bitmap that is not 2-dimensional fails with   *)
(* the assertion error and returns no grid; on every 2-dimensional bitmap  *)
(* it does not fail and returns a complete grid of palette entries.        *)
(***************************************************************************)
C6_Dimensionality ==
  Encoded =>
    IF ndim(bitmap) # 2
    THEN grid = Raise("AssertionError") /\ ret = Raise("AssertionError")
    ELSE /\ grid.kind = "ndarray"
         /\ ndim(grid) = 2
         /\ Len(grid.data) = grid.shape[1] * grid.shape[2]
         /\ \A n \in 1..Len(grid.data) :
              \E m \in 1..Len(blocks_table[call.block_set]) :
                grid.data[n] = blocks_table[call.block_set][m]
         /\ ret.kind = "list"

\* a 3-dimensional array has been refused
C6_Witness ==
  /\ Encoded
  /\ bitmap.shape = <<2, 1, 2>>
  /\ grid = Raise("AssertionError")
  /\ ret = Raise("AssertionError")

C8_ZeroDimension ==
  (ndim(bitmap) = 2 /\ (bitmap.shape[1] = 0 \/ bitmap.shape[2] = 0)) =>
    /\ EncodeDone =>
         /\ grid.kind = "ndarray"
         /\ grid.shape = <<ceil_div(bitmap.shape[1], chunk_h(call.block_set)),
                             ceil_div(bitmap.shape[2], chunk_w(call.block_set))>>
         /\ grid.data = <<>>
    /\ RenderDone =>
         /\ ret.kind = "list"
         /\ Len(ret.items) = ceil_div(bitmap.shape[1], chunk_h(call.block_set))
         /\ \A n \in 1..Len(ret.items) : ret.items[n] = <<>>

\* a 3x0 bitmap under BLOCKS_2X2 gives a 2x0 grid
C8_Witness ==
  /\ EncodeDone
  /\ call.block_set = "BLOCKS_2X2"
  /\ bitmap.shape = <<3, 0>>
  /\ grid.kind = "ndarray"
  /\ grid.shape = <<2, 0>>
  /\ ret = [kind |-> "list", items |-> << <<>>, <<>> >>]

(***************************************************************************)
(* C9: a bitmap without zero pixels whose height and width are multiples   *)
(* of the chunk shape encodes to the last palette entry, of index          *)
(* 2^(ch*cw) - 1, in every cell, whatever the values of the pixels.        *)
(***************************************************************************)
C9_Saturation ==
  (/\ EncodeDone
   /\ bitmap.shape[1] % chunk_h(call.block_set) = 0
   /\ bitmap.shape[2] % chunk_w(call.block_set) = 0
   /\ \A n \in 1..Len(bitmap.data) : bitmap.data[n] # 0) =>
    /\ grid.kind = "ndarray"
    /\ Len(grid.data) = (bitmap.shape[1] \div chunk_h(call.block_set))
                         * (bitmap.shape[2] \div chunk_w(call.block_set))
    /\ \A n \in 1..Len(grid.data) :
         grid.data[n] = blocks_table[call.block_set]
                         [2 ^ (chunk_h(call.block_set) * chunk_w(call.block_set))]

\* a 4x2 bitmap of pixels MaxVal under BLOCKS_2X4 gives the full block
C9_Witness ==
  /\ EncodeDone
  /\ call.block_set = "BLOCKS_2X4"
  /\ bitmap.shape = <<4, 2>>
  /\ \A n \in 1..8 : bitmap.data[n] = MaxVal
  /\ grid.kind = "ndarray"
  /\ grid.data = << <<9608>> >>

\* the exponent k of a power of two 2^k
log2(m) == CHOOSE k \in 0..30 : 2 ^ k = m

\* the pixel order a configuration object was built from
order_of(slf) ==
  [r \in 1..slf.matrix.shape[1] |->
     [c \in 1..slf.matrix.shape[2] |-> log2(slf.matrix.data[(r - 1) * slf.matrix.shape[2] + c])]]

\* a pixel order that is no bijection onto 0 .. ch*cw - 1
malformed(order) ==
  {order[r][c] : r \in 1..Len(order), c \in 1..Len(order[1])}
    # 0..(Len(order) * Len(order[1]) - 1)

\* the client's _Pseudographics object has encoded the bitmap
SelfEncodeDone == call.fn = "bitmap_to_blocks" /\ self.kind = "object"

\* the constructor has been handed a list of 2^(ch*cw) blocks
LengthPasses ==
  /\ call.fn = "Pseudographics"
  /\ Len(call.args[1]) = 2 ^ (Len(call.args[2]) * Len(call.args[2][1]))

(***************************************************************************)
(* C10 as stated: a configuration whose bit order is no bijection and      *)
(* whose palette length passes the check is accepted at construction, and  *)
(* bitmap_to_blocks with it never fails: it returns a grid of palette      *)
(* glyphs for every bitmap.                                                *)
(***************************************************************************)
C10_NeverFails ==
  /\ (LengthPasses /\ malformed(call.args[2])) => self.kind = "object"
  /\ (SelfEncodeDone /\ malformed(order_of(self))) =>
       /\ ret.kind = "ndarray"
       /\ \A n \in 1..Len(ret.data) :
            \E m \in 1..Len(self.blocks.data) : ret.data[n] = self.blocks.data[m]

(***************************************************************************)
(* C10 amended: such a configuration, its bit assignments non-negative,    *)
(* is accepted at construction; bitmap_to_blocks with it returns, without  *)
(* an error, the grid of the palette entries at the packed indices when    *)
(* every chunk's packed index is below the palette length, and fails with  *)
(* IndexError, returning no grid, when some chunk's packed index is not.   *)
(***************************************************************************)
C10_Malformed ==
  /\ (LengthPasses /\ malformed(call.args[2])) =>
       /\ ret = None
       /\ self.kind = "object"
       /\ self.blocks.data = call.args[1]
       /\ order_of(self) = call.args[2]
  /\ (SelfEncodeDone /\ malformed(order_of(self))) =>
       LET order == order_of(self)
           padded == binarize_and_pad(self, bitmap)
           rows == ceil_div(bitmap.shape[1], Len(order))
           cols == ceil_div(bitmap.shape[2], Len(order[1]))
           idx(R, C) == packed_index(order, padded, R, C)
       IN IF \E R \in 0..(rows - 1), C \in 0..(cols - 1) : idx(R, C) >= Len(self.blocks.data)
          THEN ret = Raise("IndexError")
          ELSE /\ ret.kind = "ndarray"
               /\ ret.shape = <<rows, cols>>
               /\ \A R \in 0..(rows - 1), C \in 0..(cols - 1) :
                    at2(ret, R, C) = self.blocks.data[idx(R, C) + 1]

\* under the pixel order [[0, 0]] the bitmap [[1, 255], [0, 1]] encodes to
\* 'C' and 'B': the two pixels of a chunk are not told apart
C10_Witness ==
  /\ SelfEncodeDone
  /\ self.matrix.shape = <<1, 2>>
  /\ self.matrix.data = <<1, 1>>
  /\ bitmap.shape = <<2, 2>>
  /\ bitmap.data = <<1, MaxVal, 0, 1>>
  /\ ret.kind = "ndarray"
  /\ ret.data = << <<67>>, <<66>> >>

====
